---- MODULE Spec2Model ----
(***************************************************************************)
(* The unstructured dual-mesh engine of landlab/graph/voronoi:             *)
(* VoronoiDelaunay builds the raw tables of a Delaunay triangulation and   *)
(* its Voronoi dual, VoronoiDelaunayToGraph links them and prunes corners, *)
(* links, patches, perimeter faces and perimeter cells with drop_element.  *)
(* VoronoiDelaunayGrid.save of landlab/grid/voronoi.py has a specification *)
(* of its own, SaveSpec, and so have the radial layout of                  *)
(* landlab/graph/radial (RadialSpec), the species record of                *)
(* landlab/components/species_evolution (SpeciesSpec) and the stability    *)
(* test of landlab/components/transport_length_diffusion (DiffuserSpec).   *)
(*                                                                         *)
(* A table is a sequence of rows and a row a sequence of integers (a 1-D   *)
(* table has rows of length one).  Ids are 0-based as in the source: the   *)
(* row of id i is table[i + 1].                                            *)
(***************************************************************************)
EXTENDS Integers, Sequences, FiniteSets, TLC

VARIABLES
    mesh,             \* self._mesh: table name -> table
    perimeter_links,  \* self._perimeter_links (given = FALSE models None)
    pc,               \* position in __init__, then "built", then the owner's call
    last,             \* the last drop_element call: its arguments and the mesh before it
    files,            \* the directory a grid is saved to: path -> what the file holds
    saved,            \* the last save call: its arguments and the directory before it
    radial,           \* a RadialGraph: its shape, the layout of its nodes, the last answer
    evolver,          \* a SpeciesEvolver: its delegate's record and species, the last call
    diffuser          \* a TransportLengthHillslopeDiffuser: its grid fields, the last call

vars == <<mesh, perimeter_links, pc, last, files, saved, radial, evolver, diffuser>>

\* The variables of the graph and those of the grid's save.
graph == <<mesh, perimeter_links, pc, last>>

disk == <<files, saved>>

\* The components that are no part of the mesh engine.
components == <<radial, evolver, diffuser>>

\* A component that has not been constructed.
NotConstructed == [pc |-> "none"]

\* Longest id list handed to drop_element by the mesh's owner.
MaxDropIds == 2

(***************************************************************************)
(* Small helpers over sequences.                                           *)
(***************************************************************************)
Range(s) == {s[i] : i \in DOMAIN s}

RECURSIVE SetToSortedSeq(_)
SetToSortedSeq(S) ==
    IF S = {} THEN <<>>
    ELSE LET m == CHOOSE x \in S : \A y \in S : x <= y
         IN <<m>> \o SetToSortedSeq(S \ {m})

\* np.where(mask)[0]: the ids whose entry of the mask is true, ascending.
Where(mask) == SetToSortedSeq({i - 1 : i \in {k \in DOMAIN mask : mask[k]}})

RECURSIVE FlattenRows(_)
FlattenRows(rows) ==
    IF rows = <<>> THEN <<>> ELSE Head(rows) \o FlattenRows(Tail(rows))

\* rows[ids] (numpy fancy indexing with valid, non-negative ids)
TakeRows(rows, ids) == [j \in 1..Len(ids) |-> rows[ids[j] + 1]]

SeqMax(s) == CHOOSE x \in Range(s) : \A y \in Range(s) : y <= x

Kinds == {"node", "link", "patch", "corner", "face", "cell"}

(***************************************************************************)
(* Output of scipy.spatial.Delaunay / Voronoi for the point sets the model *)
(* is run on.  Coordinates are scaled to integers.                         *)
(***************************************************************************)

\* Three points of a right triangle: one Voronoi vertex (the circumcentre),
\* three unbounded ridges, three open regions and the empty region.
Triangle ==
    [ points         |-> << <<0, 0>>, <<80, 0>>, <<0, 60>> >>,
      simplices      |-> << <<1, 2, 0>> >>,
      vertices       |-> << <<40, 30>> >>,
      ridge_points   |-> << <<0, 2>>, <<0, 1>>, <<1, 2>> >>,
      ridge_vertices |-> << <<-1, 0>>, <<-1, 0>>, <<-1, 0>> >>,
      regions        |-> << <<>>, <<-1, 0>>, <<0, -1>>, <<-1, 0>> >>,
      point_region   |-> <<3, 1, 2>> ]

\* A triangle A=0, B=1, C=2 with the point D=3 inside it: three Delaunay
\* triangles ABD, BCD, CAD whose circumcentres are corners 0, 1, 2; the
\* ridges of AB, AC, BC are unbounded, D's region is closed.
\* regions are listed in two of the orders qhull may produce.
TrianglePlusPoint(regions, point_region) ==
    [ points         |-> << <<0, 0>>, <<80, 0>>, <<40, 60>>, <<40, 20>> >>,
      simplices      |-> << <<3, 0, 1>>, <<1, 2, 3>>, <<0, 3, 2>> >>,
      vertices       |-> << <<40, -30>>, <<75, 40>>, <<5, 40>> >>,
      ridge_points   |-> << <<0, 1>>, <<3, 0>>, <<0, 2>>, <<3, 1>>, <<1, 2>>, <<2, 3>> >>,
      ridge_vertices |-> << <<-1, 0>>, <<0, 2>>, <<-1, 2>>, <<0, 1>>, <<-1, 1>>, <<1, 2>> >>,
      regions        |-> regions,
      point_region   |-> point_region ]

RegionA == <<-1, 0, 2>>
RegionB == <<0, -1, 1>>
RegionC == <<1, -1, 2>>
RegionD == <<0, 1, 2>>

TrianglePlusPointLast ==
    TrianglePlusPoint(<< <<>>, RegionA, RegionB, RegionC, RegionD >>, <<1, 2, 3, 4>>)

TrianglePlusPointFirst ==
    TrianglePlusPoint(<< RegionD, RegionA, <<>>, RegionB, RegionC >>, <<1, 3, 4, 0>>)

\* A regular hexagon 0..5 around its centre 6: six Delaunay triangles, six
\* corners, six bounded ridges (the spokes), six unbounded ones (the hull
\* edges), six open regions, the centre's closed region and the empty one.
Hexagon ==
    [ points         |-> << <<200, 87>>, <<150, 174>>, <<50, 174>>, <<0, 87>>,
                            <<50, 0>>, <<150, 0>>, <<100, 87>> >>,
      simplices      |-> << <<1, 2, 6>>, <<3, 4, 6>>, <<3, 6, 2>>, <<6, 0, 1>>,
                            <<6, 4, 5>>, <<0, 6, 5>> >>,
      vertices       |-> << <<150, 116>>, <<150, 58>>, <<100, 145>>, <<50, 116>>,
                            <<100, 29>>, <<50, 58>> >>,
      ridge_points   |-> << <<6, 0>>, <<2, 1>>, <<6, 1>>, <<2, 6>>, <<4, 5>>, <<1, 0>>,
                            <<2, 3>>, <<6, 3>>, <<5, 0>>, <<5, 6>>, <<4, 6>>, <<3, 4>> >>,
      ridge_vertices |-> << <<1, 0>>, <<-1, 2>>, <<0, 2>>, <<3, 2>>, <<-1, 4>>, <<-1, 0>>,
                            <<-1, 3>>, <<3, 5>>, <<-1, 1>>, <<4, 1>>, <<5, 4>>, <<-1, 5>> >>,
      regions        |-> << <<>>, <<2, -1, 3>>, <<1, -1, 0>>, <<-1, 1, 4>>,
                            <<0, 2, 3, 5, 4, 1>>, <<0, -1, 2>>, <<5, -1, 4>>, <<-1, 5, 3>> >>,
      point_region   |-> <<2, 5, 1, 7, 6, 3, 4>> ]

\* A triangle 0, 1, 2 with the points 3 and 4 inside it, 4 below 3: five
\* Delaunay triangles and five corners; the region of 3 is closed with four
\* corners, the region of 4 is closed with three and is padded.
TwoInnerPoints ==
    [ points         |-> << <<0, 0>>, <<120, 0>>, <<60, 120>>, <<60, 50>>, <<60, 15>> >>,
      simplices      |-> << <<4, 0, 1>>, <<3, 0, 2>>, <<3, 1, 2>>, <<4, 0, 3>>, <<1, 3, 4>> >>,
      vertices       |-> << <<60, -112>>, <<-20, 85>>, <<140, 85>>, <<24, 32>>, <<96, 32>> >>,
      ridge_points   |-> << <<3, 4>>, <<4, 1>>, <<0, 3>>, <<2, 1>>, <<0, 4>>, <<0, 1>>,
                            <<3, 2>>, <<2, 0>>, <<3, 1>> >>,
      ridge_vertices |-> << <<4, 3>>, <<4, 0>>, <<3, 1>>, <<-1, 2>>, <<3, 0>>, <<-1, 0>>,
                            <<1, 2>>, <<-1, 1>>, <<2, 4>> >>,
      regions        |-> << <<3, 4, 2, 1>>, <<>>, <<-1, 0, 3, 1>>, <<0, 4, 3>>,
                            <<-1, 1, 2>>, <<0, 4, 2, -1>> >>,
      point_region   |-> <<2, 5, 4, 0, 3>> ]

NoPerimeterLinks == [given |-> FALSE, pairs |-> <<>>]

\* The convex hull of the triangle, as node pairs.
HullLinks == [given |-> TRUE, pairs |-> << <<1, 0>>, <<1, 2>>, <<2, 0>> >>]

\* The concave boundary A-D-B-C-A: the hull edge AB is not on it.
ConcaveLinks ==
    [given |-> TRUE, pairs |-> << <<0, 3>>, <<3, 1>>, <<2, 1>>, <<0, 2>> >>]

\* The boundary 0-1-2-3-4-5-6-0 of the hexagon: the hull edge 5-0 is
\* replaced by the two spokes through the centre.
NotchedLinks ==
    [given |-> TRUE,
     pairs |-> << <<0, 1>>, <<1, 2>>, <<2, 3>>, <<3, 4>>, <<4, 5>>, <<5, 6>>, <<0, 6>> >>]

\* The hexagon's boundary with two notches: the hull edges 5-0 and 2-3 are
\* each replaced by the two spokes through the centre.
TwoNotchLinks ==
    [given |-> TRUE,
     pairs |-> << <<0, 1>>, <<1, 2>>, <<2, 6>>, <<6, 3>>, <<3, 4>>, <<4, 5>>,
                  <<5, 6>>, <<6, 0>> >>]

\* The hull of the hexagon and the diameter 0-3, which is no link.
HullAndDiameterLinks ==
    [given |-> TRUE,
     pairs |-> << <<0, 1>>, <<1, 2>>, <<2, 3>>, <<3, 4>>, <<4, 5>>, <<5, 0>>, <<0, 3>> >>]

\* The perimeter of the two inner points' triangle with the edge 0-1
\* replaced by 0-4 and 4-1.
InnerNotchLinks ==
    [given |-> TRUE, pairs |-> << <<0, 4>>, <<4, 1>>, <<1, 2>>, <<2, 0>> >>]

Inputs ==
    { [xy |-> Triangle, perimeter_links |-> NoPerimeterLinks],
      [xy |-> Triangle, perimeter_links |-> HullLinks],
      [xy |-> TrianglePlusPointLast, perimeter_links |-> NoPerimeterLinks],
      [xy |-> TrianglePlusPointLast, perimeter_links |-> ConcaveLinks],
      [xy |-> TrianglePlusPointFirst, perimeter_links |-> NoPerimeterLinks],
      [xy |-> TrianglePlusPointFirst, perimeter_links |-> HullLinks],
      [xy |-> TrianglePlusPointFirst, perimeter_links |-> ConcaveLinks],
      [xy |-> Hexagon, perimeter_links |-> NoPerimeterLinks],
      [xy |-> Hexagon, perimeter_links |-> NotchedLinks],
      [xy |-> Hexagon, perimeter_links |-> TwoNotchLinks],
      [xy |-> Hexagon, perimeter_links |-> HullAndDiameterLinks],
      [xy |-> TwoInnerPoints, perimeter_links |-> NoPerimeterLinks],
      [xy |-> TwoInnerPoints, perimeter_links |-> InnerNotchLinks] }

(***************************************************************************)
(* VoronoiDelaunay.__init__                                                *)
(***************************************************************************)
Column(rows, k) == [i \in 1..Len(rows) |-> <<rows[i][k]>>]

\* _corners_at_cell padding with 0, a corner id, in place of -1
CornersAtCellPaddedWithZero(regions) ==
    LET width == SeqMax([i \in 1..Len(regions) |-> Len(regions[i])])
    IN [i \in 1..Len(regions) |->
            [k \in 1..width |-> IF k <= Len(regions[i]) THEN regions[i][k] ELSE 0]]

\* jaggedarray.unravel(..., pad=-1): every region padded with -1 to the
\* length of the longest one.
_corners_at_cell(regions) ==
    LET width == SeqMax([i \in 1..Len(regions) |-> Len(regions[i])])
    IN [i \in 1..Len(regions) |->
            [k \in 1..width |-> IF k <= Len(regions[i]) THEN regions[i][k] ELSE -1]]

\* VoronoiDelaunay that takes region i for the cell of point i, without
\* voronoi.point_region
VoronoiDelaunayRegionPerPoint(voronoi) ==
    [ x_of_node         |-> Column(voronoi.points, 1),
      y_of_node         |-> Column(voronoi.points, 2),
      x_of_corner       |-> Column(voronoi.vertices, 1),
      y_of_corner       |-> Column(voronoi.vertices, 2),
      nodes_at_link     |-> voronoi.ridge_points,
      nodes_at_patch    |-> voronoi.simplices,
      corners_at_face   |-> voronoi.ridge_vertices,
      corners_at_cell   |-> _corners_at_cell(voronoi.regions),
      n_corners_at_cell |-> [i \in 1..Len(voronoi.regions) |-> <<Len(voronoi.regions[i])>>],
      nodes_at_face     |-> voronoi.ridge_points,
      cell_at_node      |-> [i \in 1..Len(voronoi.point_region) |-> <<i - 1>>] ]

VoronoiDelaunay(voronoi) ==
    [ x_of_node         |-> Column(voronoi.points, 1),
      y_of_node         |-> Column(voronoi.points, 2),
      x_of_corner       |-> Column(voronoi.vertices, 1),
      y_of_corner       |-> Column(voronoi.vertices, 2),
      nodes_at_link     |-> voronoi.ridge_points,
      nodes_at_patch    |-> voronoi.simplices,
      corners_at_face   |-> voronoi.ridge_vertices,
      corners_at_cell   |-> _corners_at_cell(voronoi.regions),
      n_corners_at_cell |-> [i \in 1..Len(voronoi.regions) |-> <<Len(voronoi.regions[i])>>],
      nodes_at_face     |-> voronoi.ridge_points,
      cell_at_node      |-> [i \in 1..Len(voronoi.point_region) |-> <<voronoi.point_region[i]>>] ]

\* self._mesh.dims[at]: the length of the tables whose first axis is `at`.
number_of(m, at) ==
    CASE at = "node"   -> Len(m.x_of_node)
      [] at = "link"   -> Len(m.nodes_at_link)
      [] at = "patch"  -> Len(m.nodes_at_patch)
      [] at = "corner" -> Len(m.x_of_corner)
      [] at = "face"   -> Len(m.corners_at_face)
      [] at = "cell"   -> Len(m.corners_at_cell)

(***************************************************************************)
(* The connectivity linker.                                                *)
(***************************************************************************)
SamePair(p, a, b) == (p[1] = a /\ p[2] = b) \/ (p[1] = b /\ p[2] = a)

\* sort.intpair.map_rolling_pairs_to_values: for each row, the value mapped
\* to each consecutive pair (i, i+1 mod width), in either orientation;
\* -1 where no pair matches.
map_rolling_pairs_to_values(pairs, values, rows) ==
    [r \in 1..Len(rows) |->
        [k \in 1..Len(rows[r]) |->
            LET a == rows[r][k]
                b == rows[r][(k % Len(rows[r])) + 1]
                hits == {j \in 1..Len(pairs) : SamePair(pairs[j], a, b)}
            IN IF hits = {} THEN -1
               ELSE values[CHOOSE j \in hits : \A h \in hits : j <= h]]]

\* np.lexsort((nodes_at_link[:, 1], nodes_at_link[:, 0])): link ids ordered
\* by (first node, second node).
LexSort(nodes_at_link) ==
    SortSeq([i \in 1..Len(nodes_at_link) |-> i - 1],
            LAMBDA i, j :
                \/ nodes_at_link[i + 1][1] < nodes_at_link[j + 1][1]
                \/ /\ nodes_at_link[i + 1][1] = nodes_at_link[j + 1][1]
                   /\ nodes_at_link[i + 1][2] < nodes_at_link[j + 1][2])

_links_at_patch(nodes_at_link, nodes_at_patch) ==
    LET link_at_nodes == LexSort(nodes_at_link)
    IN map_rolling_pairs_to_values(TakeRows(nodes_at_link, link_at_nodes),
                                   link_at_nodes, nodes_at_patch)

\* sort.sort.reverse_one_to_one: the inverse of a one-to-one id table,
\* -1 where an id has no pre-image.
reverse_one_to_one(ids, n) ==
    [c \in 1..n |->
        LET from == {i \in 1..Len(ids) : ids[i][1] = c - 1}
        IN IF from = {} THEN <<-1>> ELSE <<(CHOOSE i \in from : TRUE) - 1>>]

(***************************************************************************)
(* The boundary classifier.                                                *)
(***************************************************************************)
HasMinusOne(row) == \E k \in DOMAIN row : row[k] = -1

AllMinusOne(row) == \A k \in DOMAIN row : row[k] = -1

\* is_perimeter_face with np.all in place of np.any
IsPerimeterFaceBothCorners(m) ==
    [f \in 1..Len(m.corners_at_face) |-> AllMinusOne(m.corners_at_face[f])]

is_perimeter_face(m) ==
    [f \in 1..Len(m.corners_at_face) |->
        \E k \in DOMAIN m.corners_at_face[f] : m.corners_at_face[f][k] = -1]

\* ext.voronoi.id_array_contains: does the first n[c] entries of row c
\* contain the value?
id_array_contains(rows, n, value) ==
    [c \in 1..Len(rows) |->
        \E k \in 1..Len(rows[c]) : k <= n[c][1] /\ rows[c][k] = value]

\* is_perimeter_cell that looks for -1 in the whole padded row
IsPerimeterCellWholeRow(m) ==
    [c \in 1..Len(m.n_corners_at_cell) |->
        HasMinusOne(m.corners_at_cell[c]) \/ m.n_corners_at_cell[c][1] < 3]

\* is_perimeter_cell without `|= n_corners_at_cell < 3`
IsPerimeterCellContainsOnly(m) ==
    id_array_contains(m.corners_at_cell, m.n_corners_at_cell, -1)

is_perimeter_cell(m) ==
    LET contains == id_array_contains(m.corners_at_cell, m.n_corners_at_cell, -1)
    IN [c \in 1..Len(m.n_corners_at_cell) |->
            contains[c] \/ m.n_corners_at_cell[c][1] < 3]

\* sort.intpair.pair_isin: for each pair, is it in src_pairs, in either
\* orientation?
pair_isin(src_pairs, pairs) ==
    [i \in 1..Len(pairs) |->
        \E j \in 1..Len(src_pairs) : SamePair(src_pairs[j], pairs[i][1], pairs[i][2])]

\* is_perimeter_link that never consults self._perimeter_links
IsPerimeterLinkIgnoringList(m, pl) == is_perimeter_face(m)

\* is_perimeter_link that takes a missing list for an empty one
IsPerimeterLinkAlwaysFromList(m, pl) == pair_isin(pl.pairs, m.nodes_at_link)

is_perimeter_link(m, pl) ==
    IF pl.given THEN pair_isin(pl.pairs, m.nodes_at_link)
    ELSE is_perimeter_face(m)

\* unbound_corners without the `>= 0` filter
UnboundCornersKeepingSentinel(m, pl) ==
    LET is_face == is_perimeter_face(m)
        is_link == is_perimeter_link(m, pl)
        faces_to_drop == Where([f \in 1..Len(is_face) |-> is_face[f] /\ ~is_link[f]])
    IN SetToSortedSeq(Range(FlattenRows(TakeRows(m.corners_at_face, faces_to_drop))))

\* Defined where is_perimeter_face() and is_perimeter_link() have the same
\* length (numpy raises on the `&` otherwise).
unbound_corners(m, pl) ==
    LET is_face == is_perimeter_face(m)
        is_link == is_perimeter_link(m, pl)
        faces_to_drop == Where([f \in 1..Len(is_face) |-> is_face[f] /\ ~is_link[f]])
        corners == FlattenRows(TakeRows(m.corners_at_face, faces_to_drop))
    IN SetToSortedSeq(Range(SelectSeq(corners, LAMBDA c : c >= 0)))

(***************************************************************************)
(* drop_element                                                            *)
(***************************************************************************)
\* The words of each table name: <<before the separator, separator, after>>.
NameParts ==
    [ x_of_node         |-> <<"x", "of", "node">>,
      y_of_node         |-> <<"y", "of", "node">>,
      x_of_corner       |-> <<"x", "of", "corner">>,
      y_of_corner       |-> <<"y", "of", "corner">>,
      nodes_at_link     |-> <<"nodes", "at", "link">>,
      nodes_at_patch    |-> <<"nodes", "at", "patch">>,
      corners_at_face   |-> <<"corners", "at", "face">>,
      corners_at_cell   |-> <<"corners", "at", "cell">>,
      n_corners_at_cell |-> <<"n_corners", "at", "cell">>,
      nodes_at_face     |-> <<"nodes", "at", "face">>,
      cell_at_node      |-> <<"cell", "at", "node">>,
      links_at_patch    |-> <<"links", "at", "patch">>,
      node_at_cell      |-> <<"node", "at", "cell">>,
      faces_at_cell     |-> <<"faces", "at", "cell">> ]

WithS ==
    [ node |-> "nodes", link |-> "links", patch |-> "patchs",
      corner |-> "corners", face |-> "faces", cell |-> "cells" ]

\* re.compile("^{at}(es)?_at_") for patch, re.compile("^{at}(s)?_at_") otherwise
prefix(at, name) ==
    /\ NameParts[name][2] = "at"
    /\ IF at = "patch" THEN NameParts[name][1] \in {"patch", "patches"}
       ELSE NameParts[name][1] \in {at, WithS[at]}

\* re.compile("at_{at}$")
suffix(at, name) == NameParts[name][2] = "at" /\ NameParts[name][3] = at

\* "x_of_{at}" and "y_of_{at}", which exist when `at` is a coordinate
coords_of(at, name) == NameParts[name][2] = "of" /\ NameParts[name][3] = at

\* is_a_keeper[dropped_ids] = False raises IndexError for an id outside
\* [-n, n); a negative id in range counts from the end.
InBounds(n, id) == -n <= id /\ id < n

IndexOf(n, id) == IF id < 0 THEN id + n ELSE id

\* is_a_keeper[dropped_ids[0]] = False: only the first id is dropped
IsAKeeperFirstIdOnly(n, dropped_ids) ==
    [i \in 1..n |-> dropped_ids = <<>> \/ IndexOf(n, dropped_ids[1]) # i - 1]

is_a_keeper(n, dropped_ids) ==
    [i \in 1..n |-> \A j \in DOMAIN dropped_ids : IndexOf(n, dropped_ids[j]) # i - 1]

\* var.values[is_a_keeper]
Keepers(rows, keeper) == TakeRows(rows, Where(keeper))

\* for id_ in dropped_ids: array[array > id_] -= 1, for one entry
RECURSIVE Shift(_, _, _)
Shift(v, dropped_ids, k) ==
    IF k > Len(dropped_ids) THEN v
    ELSE Shift(IF v > dropped_ids[k] THEN v - 1 ELSE v, dropped_ids, k + 1)

\* the shifts without array[np.in1d(array, dropped_ids)] = -1
RenumberWithoutMark(v, dropped_ids) == Shift(v, dropped_ids, 1)

\* array[np.in1d(array, dropped_ids)] = -1, then the shifts, for one entry
Renumber(v, dropped_ids) ==
    Shift(IF v \in Range(dropped_ids) THEN -1 ELSE v, dropped_ids, 1)

RenumberTable(rows, dropped_ids) ==
    [r \in 1..Len(rows) |->
        [k \in 1..Len(rows[r]) |-> Renumber(rows[r][k], dropped_ids)]]

Raises(m, ids, at) == \E j \in DOMAIN ids : ~InBounds(number_of(m, at), ids[j])

\* The mesh after drop_element(ids, at) when it does not raise.
drop_element(m, ids, at) ==
    LET dropped_ids == SortSeq(ids, LAMBDA a, b : a < b)
        keeper == is_a_keeper(number_of(m, at), dropped_ids)
        kept == [name \in DOMAIN m |->
                    IF coords_of(at, name) \/ suffix(at, name)
                    THEN Keepers(m[name], keeper) ELSE m[name]]
    IN [name \in DOMAIN m |->
            IF prefix(at, name) THEN RenumberTable(kept[name], dropped_ids)
            ELSE kept[name]]

Call(ids, at) ==
    [op |-> "drop_element", at |-> at, ids |-> ids, pre |-> mesh,
     raised |-> Raises(mesh, ids, at)]

\* One call of self.drop_element(ids, at) on the current mesh.
DoDrop(ids, at) ==
    /\ last' = Call(ids, at)
    /\ mesh' = IF Raises(mesh, ids, at) THEN mesh ELSE drop_element(mesh, ids, at)

(***************************************************************************)
(* VoronoiDelaunayGrid.save(path, clobber) of landlab/grid/voronoi.py.     *)
(*                                                                         *)
(* A path is the sequence of the dot-separated pieces of a file name in    *)
(* one directory: <<"out", "txt">> is out.txt, <<"", "grid">> is .grid.   *)
(* files maps each path to what the file holds, "absent" if there is none. *)
(***************************************************************************)
\* The paths handed to save.
SavePaths ==
    { <<"out">>, <<"out", "grid">>, <<"out", "txt">>, <<"out", "txt", "grid">>,
      <<"", "grid">> }

\* os.path.splitext: <<base, ext>>, the extension being the piece after the
\* last dot (<<>> if there is none); leading dots of the name start no
\* extension.
splitext(path) ==
    IF Len(path) = 1 \/ (Len(path) = 2 /\ path[1] = "") THEN <<path, <<>>>>
    ELSE <<SubSeq(path, 1, Len(path) - 1), <<path[Len(path)]>>>>

\* if ext != ".grid": ext = ext + ".grid"; path = base + ext
GridPath(path) ==
    LET base == splitext(path)[1]
        ext == splitext(path)[2]
    IN IF ext # <<"grid">> THEN base \o ext \o <<"grid">> ELSE base \o ext

\* Every file the model looks at.
AllPaths == SavePaths \cup {GridPath(path) : path \in SavePaths}

NoSave ==
    [op |-> "none", path |-> <<"out">>, clobber |-> FALSE, raised |-> FALSE,
     pre |-> [p \in AllPaths |-> "absent"]]

(***************************************************************************)
(* VoronoiDelaunayToGraph.__init__, one action per step.                   *)
(***************************************************************************)
Init ==
    \E input \in Inputs :
        /\ mesh = VoronoiDelaunay(input.xy)
        /\ perimeter_links = input.perimeter_links
        /\ pc = "raw"
        /\ last = [op |-> "none", at |-> "node", ids |-> <<>>,
                   pre |-> VoronoiDelaunay(input.xy), raised |-> FALSE]
        /\ files = NoSave.pre
        /\ saved = NoSave
        /\ radial = NotConstructed
        /\ evolver = NotConstructed
        /\ diffuser = NotConstructed

Link ==
    /\ pc = "raw"
    /\ mesh' =
         LET linked ==
                 mesh @@
                 [ links_at_patch |-> _links_at_patch(mesh.nodes_at_link, mesh.nodes_at_patch),
                   node_at_cell   |-> reverse_one_to_one(mesh.cell_at_node,
                                                         Len(mesh.corners_at_cell)) ]
         IN linked @@
            [ faces_at_cell |-> _links_at_patch(linked.corners_at_face, linked.corners_at_cell) ]
    /\ pc' = "linked"
    /\ UNCHANGED <<perimeter_links, last, disk, components>>

\* drop_corners, up to and including the corner drop
DropCorners ==
    /\ pc = "linked"
    /\ LET corners == unbound_corners(mesh, perimeter_links)
       IN IF Len(corners) = 0
          THEN /\ pc' = "corners_dropped"
               /\ UNCHANGED <<mesh, last>>
          ELSE /\ DoDrop(corners, "corner")
               /\ pc' = "drop_links"
    /\ UNCHANGED <<perimeter_links, disk, components>>

\* np.all in place of np.any: a face with one corner left is no link either
BadLinksAnyCorner(m) ==
    Where([f \in 1..Len(m.corners_at_face) |->
              ~(\A k \in DOMAIN m.corners_at_face[f] : m.corners_at_face[f][k] # -1)])

\* np.where(~is_a_link)[0]
BadLinks(m) ==
    Where([f \in 1..Len(m.corners_at_face) |->
              ~(\E k \in DOMAIN m.corners_at_face[f] : m.corners_at_face[f][k] # -1)])

\* drop_corners: "Remove bad links"
DropCornersLinks ==
    /\ pc = "drop_links"
    /\ DoDrop(BadLinks(mesh), "link")
    /\ pc' = "drop_patches"
    /\ UNCHANGED <<perimeter_links, disk, components>>

\* np.any in place of np.all: a patch with one link left is kept
BadPatchesAllLinks(m) ==
    Where([p \in 1..Len(m.links_at_patch) |->
              ~(\E k \in DOMAIN m.links_at_patch[p] : m.links_at_patch[p][k] >= 0)])

\* np.where(~is_a_patch)[0]
BadPatches(m) ==
    Where([p \in 1..Len(m.links_at_patch) |->
              ~(\A k \in DOMAIN m.links_at_patch[p] : m.links_at_patch[p][k] >= 0)])

\* drop_corners: "Remove the bad patches"
DropCornersPatches ==
    /\ pc = "drop_patches"
    /\ DoDrop(BadPatches(mesh), "patch")
    /\ pc' = "corners_dropped"
    /\ UNCHANGED <<perimeter_links, disk, components>>

\* drop_perimeter_faces taking the face indices for link indices, as
\* drop_corners does
DropPerimeterFacesAsLinks ==
    /\ pc = "corners_dropped"
    /\ DoDrop(Where(is_perimeter_face(mesh)), "link")
    /\ pc' = "faces_dropped"
    /\ UNCHANGED <<perimeter_links, disk, components>>

DropPerimeterFaces ==
    /\ pc = "corners_dropped"
    /\ DoDrop(Where(is_perimeter_face(mesh)), "face")
    /\ pc' = "faces_dropped"
    /\ UNCHANGED <<perimeter_links, disk, components>>

DropPerimeterCells ==
    /\ pc = "faces_dropped"
    /\ DoDrop(Where(is_perimeter_cell(mesh)), "cell")
    /\ pc' = "built"
    /\ UNCHANGED <<perimeter_links, disk, components>>

(***************************************************************************)
(* The owner of the constructed mesh calls drop_element(ids, at).          *)
(***************************************************************************)
\* Ids handed in: every id of the kind, the first id past the end, and the
\* negative ids -1 and -(n + 1).
IdsOffered(n) == (-1..n) \cup {-(n + 1)}

IdLists(n) ==
    UNION {[1..len -> IdsOffered(n)] : len \in 1..MaxDropIds}

DropElement ==
    /\ pc = "built"
    /\ \E at \in Kinds :
         \E ids \in IdLists(number_of(mesh, at)) : DoDrop(ids, at)
    /\ pc' = "dropped"
    /\ UNCHANGED <<perimeter_links, disk, components>>

(***************************************************************************)
(* The adjacency accessors return self._mesh[name].values, the array the   *)
(* dataset holds (drop_element renumbers the tables in place through the   *)
(* same attribute): a caller assigning into the returned array assigns     *)
(* into the mesh.                                                          *)
(***************************************************************************)
Accessors ==
    {"nodes_at_link", "nodes_at_patch", "nodes_at_face", "corners_at_face",
     "corners_at_cell", "n_corners_at_cell", "cell_at_node", "links_at_patch",
     "node_at_cell", "faces_at_cell"}

\* The values a caller assigns.
WrittenValues == {-1, 0}

\* array = graph.<name>; array[r, k] = v
WriteThroughAccessor ==
    /\ pc = "built"
    /\ \E name \in Accessors :
         \E r \in 1..Len(mesh[name]) :
           \E k \in 1..Len(mesh[name][r]) :
             \E v \in WrittenValues :
               /\ mesh' = [mesh EXCEPT ![name][r][k] = v]
               /\ last' = [op |-> "write", at |-> "node", ids |-> <<>>,
                           pre |-> mesh, raised |-> FALSE]
    /\ pc' = "written"
    /\ UNCHANGED <<perimeter_links, disk, components>>

Next ==
    \/ Link
    \/ DropCorners
    \/ DropCornersLinks
    \/ DropCornersPatches
    \/ DropPerimeterFaces
    \/ DropPerimeterCells
    \/ DropElement
    \/ WriteThroughAccessor

Spec == Init /\ [][Next]_vars

(***************************************************************************)
(* Saving a grid.                                                          *)
(***************************************************************************)
\* grid.save(path, clobber) on the current directory
Save ==
    /\ \E path \in SavePaths :
         \E clobber \in BOOLEAN :
           LET exists == files[path] # "absent"      \* os.path.exists(path)
               raises == exists /\ ~clobber
           IN /\ saved' = [op |-> "save", path |-> path, clobber |-> clobber,
                           raised |-> raises, pre |-> files]
              /\ files' = IF raises THEN files
                          ELSE [files EXCEPT ![GridPath(path)] = "pickle"]
    /\ UNCHANGED <<graph, components>>

\* A grid in a directory that holds any of the files, written by someone
\* else.
SaveInit ==
    /\ files \in [AllPaths -> {"absent", "other"}]
    /\ saved = NoSave
    /\ mesh = VoronoiDelaunay(Triangle)
    /\ perimeter_links = NoPerimeterLinks
    /\ pc = "grid"
    /\ last = [op |-> "none", at |-> "node", ids |-> <<>>,
               pre |-> VoronoiDelaunay(Triangle), raised |-> FALSE]
    /\ radial = NotConstructed
    /\ evolver = NotConstructed
    /\ diffuser = NotConstructed

SaveNext == Save

SaveSpec == SaveInit /\ [][SaveNext]_vars

(***************************************************************************)
(* RadialGraph of landlab/graph/radial/radial.py.                          *)
(*                                                                         *)
(* RadialGraphLayout.xy_of_node puts node `offset + k` of ring `ring` at   *)
(* radius spacing * ring and angle k * d_theta; a node is kept as the pair *)
(* <<ring, k>>, the center as <<0, 0>>.                                    *)
(***************************************************************************)
\* Most rings and most points in the first ring of a shape.
MaxRings == 4

MaxPoints == 7

\* Three points are the fewest a Delaunay triangulation takes.
Shapes == (1..MaxRings) \X (3..MaxPoints)

RECURSIVE np_sum(_)
np_sum(s) == IF s = <<>> THEN 0 ELSE Head(s) + np_sum(Tail(s))

\* np.arange(start, stop) as a sequence.
arange(start, stop) == [i \in 1..(stop - start) |-> start + i - 1]

\* RadialGraphLayout.number_of_nodes
number_of_nodes(shape) == np_sum(arange(1, shape[1] + 1)) * shape[2] + 1

\* An entry of np.empty that nothing has been written to.
EmptyEntry == <<-1, -1>>

\* No mesh and no saved grid: the state of the mesh engine and of the
\* directory in a run of a component alone.
NoMeshNoGrid ==
    /\ mesh = VoronoiDelaunay(Triangle)
    /\ perimeter_links = NoPerimeterLinks
    /\ pc = "none"
    /\ last = [op |-> "none", at |-> "node", ids |-> <<>>,
               pre |-> VoronoiDelaunay(Triangle), raised |-> FALSE]
    /\ files = NoSave.pre
    /\ saved = NoSave

\* RadialGraph(shape) on entry to the loop of xy_of_node: x and y are
\* allocated, the center is written, offset is 1.
RadialInit ==
    /\ \E shape \in Shapes :
         radial = [pc |-> "xy_of_node", _shape |-> shape, ring |-> 1, offset |-> 1,
                   xy |-> [i \in 1..number_of_nodes(shape) |->
                              IF i = 1 THEN <<0, 0>> ELSE EmptyEntry],
                   number_of_nodes_in_ring |-> <<>>]
    /\ evolver = NotConstructed
    /\ diffuser = NotConstructed
    /\ NoMeshNoGrid

\* One pass of `for ring in range(1, n_rings + 1)`.
PlaceRing ==
    /\ radial.pc = "xy_of_node"
    /\ radial.ring <= radial._shape[1]
    /\ LET ring == radial.ring
           theta == arange(0, ring * radial._shape[2])
           offset == radial.offset
       IN radial' = [radial EXCEPT
                        !.xy = [i \in 1..Len(@) |->
                                   IF offset < i /\ i <= offset + Len(theta)
                                   THEN <<ring, theta[i - offset]>> ELSE @[i]],
                        !.offset = offset + Len(theta),
                        !.ring = ring + 1]
    /\ UNCHANGED <<graph, disk, evolver, diffuser>>

\* The loop is over: xy_of_node returns and __init__ hands the points to
\* DelaunayGraph.
RadialGraphInit ==
    /\ radial.pc = "xy_of_node"
    /\ radial.ring > radial._shape[1]
    /\ radial' = [radial EXCEPT !.pc = "graph"]
    /\ UNCHANGED <<graph, disk, evolver, diffuser>>

\* The property RadialGraph.number_of_nodes_in_ring, read by the owner of
\* the graph.
NumberOfNodesInRing ==
    /\ radial.pc = "graph"
    /\ radial' = [radial EXCEPT
                     !.pc = "asked",
                     !.number_of_nodes_in_ring =
                         [k \in 1..Len(arange(0, radial._shape[1])) |->
                             radial._shape[2] * 2 ^ arange(0, radial._shape[1])[k]]]
    /\ UNCHANGED <<graph, disk, evolver, diffuser>>

RadialNext ==
    \/ PlaceRing
    \/ RadialGraphInit
    \/ NumberOfNodesInRing

RadialSpec == RadialInit /\ [][RadialNext]_vars

\* The nodes xy_of_node has put on ring r.
NodesOnRing(r) == {i \in 1..Len(radial.xy) : radial.xy[i][1] = r}

\* C21: for every shape, entry k of number_of_nodes_in_ring (0-based) is
\* the number of nodes RadialGraphLayout.xy_of_node has put on ring k + 1,
\* so that 1 + sum(number_of_nodes_in_ring) is the number of nodes.
C21_NodesInRing ==
    radial.pc = "asked" =>
        /\ \A k \in 1..radial._shape[1] :
               radial.number_of_nodes_in_ring[k] = Cardinality(NodesOnRing(k))
        /\ 1 + np_sum(radial.number_of_nodes_in_ring) = Len(radial.xy)

(***************************************************************************)
(* Properties of drop_element, stated on the last call (`last`) and the    *)
(* mesh it left.                                                           *)
(***************************************************************************)
\* A drop_element call has returned normally.
Returned == last.op = "drop_element" /\ ~last.raised

DroppedSet == Range(last.ids)

CountBefore == number_of(last.pre, last.at)

\* Every id handed in was an id of the kind, in 0..count-1.
ValidIds == \A j \in DOMAIN last.ids : 0 <= last.ids[j] /\ last.ids[j] < CountBefore

DistinctIds == Cardinality(DroppedSet) = Len(last.ids)

Survivors == (0..(CountBefore - 1)) \ DroppedSet

\* The explicit old -> new compaction map.
Compacted(j) == IF j \in DroppedSet THEN -1 ELSE j - Cardinality({d \in DroppedSet : d < j})

\* The tables whose entries are ids of the kind, and their cells.
Referencing(at) == {name \in DOMAIN mesh : prefix(at, name)}

Cells(name) ==
    UNION {{<<r, k>> : k \in 1..Len(last.pre[name][r])} : r \in 1..Len(last.pre[name])}

\* The tables indexed by the kind.
IndexedBy(at) == {name \in DOMAIN mesh : coords_of(at, name) \/ suffix(at, name)}

\* C1: after drop_element(ids, kind) with distinct valid ids, every entry of
\* a table referencing the kind that held a dropped id is -1 and every entry
\* that held a surviving id j holds j minus the number of dropped ids below
\* j: the result of the explicit compaction map.
C1_RenumberIsCompaction ==
    (Returned /\ ValidIds /\ DistinctIds) =>
        \A name \in Referencing(last.at) :
            \A c \in Cells(name) :
                LET old == last.pre[name][c[1]][c[2]]
                IN (0 <= old /\ old < CountBefore) =>
                       mesh[name][c[1]][c[2]] = Compacted(old)

\* C2: after drop_element(ids, K) with distinct valid ids on tables whose
\* entries were -1 or ids of K, every entry of a table referencing K is -1 or
\* lies in [0, new count), and an entry that held a dropped id is -1.
C2_EntriesInNewRange ==
    (Returned /\ ValidIds /\ DistinctIds) =>
        \A name \in Referencing(last.at) :
            (\A c \in Cells(name) :
                 LET old == last.pre[name][c[1]][c[2]]
                 IN old = -1 \/ (0 <= old /\ old < CountBefore)) =>
            (\A c \in Cells(name) :
                 LET old == last.pre[name][c[1]][c[2]]
                     new == mesh[name][c[1]][c[2]]
                 IN /\ new = -1 \/ (0 <= new /\ new < number_of(mesh, last.at))
                    /\ old \in DroppedSet => new = -1)

\* C3: drop_element with distinct valid ids renumbers in order: two entries
\* that held surviving ids a < b hold new numbers new(a) < new(b).
C3_RenumberKeepsOrder ==
    (Returned /\ ValidIds /\ DistinctIds) =>
        \A n1, n2 \in Referencing(last.at) :
            \A c1 \in Cells(n1), c2 \in Cells(n2) :
                LET a == last.pre[n1][c1[1]][c1[2]]
                    b == last.pre[n2][c2[1]][c2[2]]
                IN (a \in Survivors /\ b \in Survivors /\ a < b) =>
                       mesh[n1][c1[1]][c1[2]] < mesh[n2][c2[1]][c2[2]]

\* C4: drop_element(ids, kind) with valid ids leaves in every table indexed by
\* the kind (x_of_<kind>, y_of_<kind>, *at_<kind>) exactly the rows of the
\* surviving ids in their original order: row k of the new table is the row
\* of the k-th smallest surviving old id.
C4_IndexedTablesFiltered ==
    (Returned /\ ValidIds) =>
        \A name \in IndexedBy(last.at) :
            LET keep == SetToSortedSeq(Survivors)
            IN /\ Len(mesh[name]) = Len(keep)
               /\ \A k \in 1..Len(keep) : mesh[name][k] = last.pre[name][keep[k] + 1]

\* Several ids of a kind with coordinates were dropped, a survivor between or
\* above them moved to a new position.
C4_Witness ==
    /\ Returned /\ ValidIds
    /\ last.at \in {"node", "corner"}
    /\ Cardinality(DroppedSet) = 2
    /\ \E j \in Survivors : \E d \in DroppedSet : d < j
    /\ \E name \in IndexedBy(last.at) :
           /\ coords_of(last.at, name)
           /\ Len(mesh[name]) >= 2
           /\ mesh[name] # SubSeq(last.pre[name], 1, Len(mesh[name]))

(***************************************************************************)
(* Properties of the construction pipeline and of the classifier.          *)
(***************************************************************************)
Linked == pc # "raw"

\* Construction has reached or passed the return of drop_corners and the
\* owner has not called drop_element yet.
AfterDropCorners == pc \in {"corners_dropped", "faces_dropped", "built"}

\* C5: cell_at_node and node_at_cell are mutual inverses in every state from
\* linking on (after drop_perimeter_cells and after any drop_element with
\* distinct valid ids): node_at_cell[cell_at_node[n]] = n for every node n
\* with a cell, cell_at_node[node_at_cell[c]] = c for every cell c with a
\* node.
C5_CellNodeInverse ==
    (Linked /\ last.op # "write" /\ ValidIds /\ DistinctIds) =>
        /\ \A n \in 1..Len(mesh.cell_at_node) :
               LET c == mesh.cell_at_node[n][1]
               IN c # -1 => /\ 0 <= c /\ c < Len(mesh.node_at_cell)
                            /\ mesh.node_at_cell[c + 1][1] = n - 1
        /\ \A c \in 1..Len(mesh.node_at_cell) :
               LET n == mesh.node_at_cell[c][1]
               IN n # -1 => /\ 0 <= n /\ n < Len(mesh.cell_at_node)
                            /\ mesh.cell_at_node[n + 1][1] = c - 1

\* C6: drop_element with an id outside [0, count) of its kind (negative ids
\* included) raises and leaves every table as it was.
C6_InvalidIdRejected ==
    (last.op = "drop_element" /\ ~ValidIds) => (last.raised /\ mesh = last.pre)

\* C7 as stated: when drop_corners has dropped corners, no row of
\* corners_at_face is entirely -1 on its return.
C7_NoEmptyFaceOnReturn ==
    (pc = "corners_dropped" /\ last.op = "drop_element") =>
        \A f \in 1..Len(mesh.corners_at_face) : ~AllMinusOne(mesh.corners_at_face[f])

\* C7 amended: the step after the corner drop deletes, from nodes_at_link,
\* exactly the links whose same-index face has both corners -1; the face
\* tables keep those rows until drop_perimeter_faces, after which no row of
\* corners_at_face contains -1.
C7_EmptyFacesDropTheirLinks ==
    /\ pc = "drop_patches" =>
           /\ last.at = "link" /\ Returned
           /\ \A f \in 0..(Len(last.pre.corners_at_face) - 1) :
                  f \in DroppedSet <=> AllMinusOne(last.pre.corners_at_face[f + 1])
           /\ LET keep == SetToSortedSeq(
                               {f \in 0..(Len(last.pre.nodes_at_link) - 1) :
                                   ~AllMinusOne(last.pre.corners_at_face[f + 1])})
              IN mesh.nodes_at_link =
                     [k \in 1..Len(keep) |-> last.pre.nodes_at_link[keep[k] + 1]]
           /\ mesh.corners_at_face = last.pre.corners_at_face
           /\ mesh.nodes_at_face = last.pre.nodes_at_face
    /\ (pc = "corners_dropped" /\ last.op = "drop_element") =>
           /\ mesh.corners_at_face = last.pre.corners_at_face
           /\ mesh.nodes_at_face = last.pre.nodes_at_face
    /\ pc \in {"faces_dropped", "built"} =>
           \A f \in 1..Len(mesh.corners_at_face) : ~HasMinusOne(mesh.corners_at_face[f])

\* drop_corners has deleted the link of a face left with both corners -1,
\* and the face row is still there.
C7_Witness ==
    /\ pc = "drop_patches"
    /\ Len(last.ids) >= 1
    /\ Len(mesh.nodes_at_link) < Len(mesh.nodes_at_face)
    /\ \E f \in 1..Len(mesh.corners_at_face) : AllMinusOne(mesh.corners_at_face[f])

\* C8: drop_corners removes a patch iff links_at_patch holds a -1 for it
\* after the link drop, and from the return of drop_corners to the end of
\* construction no patch holds a -1 in links_at_patch.
C8_PatchDroppedIffOpen ==
    /\ (pc = "corners_dropped" /\ last.op = "drop_element") =>
           /\ last.at = "patch" /\ Returned
           /\ \A p \in 0..(Len(last.pre.links_at_patch) - 1) :
                  p \in DroppedSet <=> HasMinusOne(last.pre.links_at_patch[p + 1])
           /\ Len(mesh.links_at_patch) = Cardinality(Survivors)
           /\ Len(mesh.nodes_at_patch) = Cardinality(Survivors)
    /\ AfterDropCorners =>
           \A p \in 1..Len(mesh.links_at_patch) : ~HasMinusOne(mesh.links_at_patch[p])

\* drop_corners has dropped a patch left with a -1 link and kept another.
C8_Witness ==
    /\ pc = "corners_dropped"
    /\ last.op = "drop_element"
    /\ Len(last.ids) >= 1
    /\ Len(mesh.links_at_patch) >= 1
    /\ \E p \in DroppedSet :
           /\ HasMinusOne(last.pre.links_at_patch[p + 1])
           /\ ~AllMinusOne(last.pre.links_at_patch[p + 1])

\* unbound_corners() is defined: the two masks have the same length.
CanClassify == Linked /\ Len(mesh.nodes_at_link) = Len(mesh.corners_at_face)

\* The faces that are perimeter by geometry and not by the link override.
UnboundFaces ==
    {f \in 1..Len(mesh.corners_at_face) :
        /\ is_perimeter_face(mesh)[f]
        /\ ~is_perimeter_link(mesh, perimeter_links)[f]}

FacesUsing(c) ==
    {f \in 1..Len(mesh.corners_at_face) :
        \E k \in DOMAIN mesh.corners_at_face[f] : mesh.corners_at_face[f][k] = c}

CornersInUse == UNION {Range(mesh.corners_at_face[f]) : f \in 1..Len(mesh.corners_at_face)}

Ascending(s) == \A i \in 1..(Len(s) - 1) : s[i] < s[i + 1]

\* C9 as stated: unbound_corners() holds exactly the corners all of whose
\* faces are perimeter by geometry and not by the override, ascending,
\* without duplicates and without -1.
C9_OnlyUnboundFaces ==
    CanClassify =>
        LET corners == unbound_corners(mesh, perimeter_links)
        IN /\ Ascending(corners)
           /\ -1 \notin Range(corners)
           /\ \A c \in (CornersInUse \cup Range(corners)) \ {-1} :
                  c \in Range(corners) <=>
                      (FacesUsing(c) # {} /\ FacesUsing(c) \subseteq UnboundFaces)

\* C9 amended: unbound_corners() holds exactly the corners (not -1) of some
\* face that is perimeter by geometry and not by the override, whatever
\* other faces use them; ascending, without duplicates and without -1.
C9_CornersOfUnboundFaces ==
    CanClassify =>
        LET corners == unbound_corners(mesh, perimeter_links)
        IN /\ Ascending(corners)
           /\ -1 \notin Range(corners)
           /\ \A c \in (CornersInUse \cup Range(corners)) \ {-1} :
                  c \in Range(corners) <=> (FacesUsing(c) \cap UnboundFaces # {})

\* An override leaves a face unbound, and its corner is returned although a
\* bound face uses it too.
C9_Witness ==
    /\ CanClassify
    /\ perimeter_links.given
    /\ \E c \in Range(unbound_corners(mesh, perimeter_links)) :
           /\ FacesUsing(c) \cap UnboundFaces # {}
           /\ FacesUsing(c) \ UnboundFaces # {}

\* C10: with an explicit perimeter_links list, link i is perimeter iff its
\* node pair is in the list in either orientation; without one,
\* is_perimeter_link() is is_perimeter_face().
C10_PerimeterLink ==
    Linked =>
        LET is_link == is_perimeter_link(mesh, perimeter_links)
        IN IF perimeter_links.given
           THEN /\ Len(is_link) = Len(mesh.nodes_at_link)
                /\ \A i \in 1..Len(mesh.nodes_at_link) :
                       LET a == mesh.nodes_at_link[i][1]
                           b == mesh.nodes_at_link[i][2]
                       IN is_link[i] <=>
                              (<<a, b>> \in Range(perimeter_links.pairs)
                               \/ <<b, a>> \in Range(perimeter_links.pairs))
           ELSE is_link = [f \in 1..Len(mesh.corners_at_face) |->
                               HasMinusOne(mesh.corners_at_face[f])]

\* A link is perimeter by the list, where it is written the other way round,
\* and its face is not perimeter by geometry; another link's face is
\* perimeter by geometry and the link is not in the list.
C10_Witness ==
    /\ pc = "linked"
    /\ perimeter_links.given
    /\ \E i \in 1..Len(mesh.nodes_at_link) :
           /\ is_perimeter_link(mesh, perimeter_links)[i]
           /\ mesh.nodes_at_link[i] \notin Range(perimeter_links.pairs)
           /\ ~is_perimeter_face(mesh)[i]
    /\ \E i \in 1..Len(mesh.nodes_at_link) :
           /\ ~is_perimeter_link(mesh, perimeter_links)[i]
           /\ is_perimeter_face(mesh)[i]

\* C11: in every state is_perimeter_cell() marks cell c iff the first
\* n_corners_at_cell[c] entries of corners_at_cell[c] contain -1 or
\* n_corners_at_cell[c] < 3: a cell of three valid corners is not marked, and
\* the -1 padding past the count marks no cell.
C11_PerimeterCell ==
    LET is_cell == is_perimeter_cell(mesh)
    IN /\ Len(is_cell) = Len(mesh.n_corners_at_cell)
       /\ \A c \in 1..Len(is_cell) :
              LET n == mesh.n_corners_at_cell[c][1]
                  row == mesh.corners_at_cell[c]
              IN is_cell[c] <=> (-1 \in {row[k] : k \in 1..n} \/ n < 3)

\* drop_perimeter_cells has kept a cell of exactly three corners, all
\* valid, whose row is padded with -1 past the count, and has dropped a cell
\* with -1 among its corners.
C11_Witness ==
    /\ pc = "built" /\ last.at = "cell" /\ Returned
    /\ \E c \in Survivors :
           LET n == last.pre.n_corners_at_cell[c + 1][1]
               row == last.pre.corners_at_cell[c + 1]
           IN /\ n = 3 /\ Len(row) > 3
              /\ \A k \in 1..n : row[k] >= 0
              /\ \E k \in (n + 1)..Len(row) : row[k] = -1
              /\ ~is_perimeter_cell(last.pre)[c + 1]
    /\ \E c \in DroppedSet :
           /\ last.pre.n_corners_at_cell[c + 1][1] >= 3
           /\ is_perimeter_cell(last.pre)[c + 1]

\* C12: in every state (raw, after the corner drop, after the face drop)
\* is_perimeter_face() marks face f iff one of the two entries of
\* corners_at_face[f] is -1.
C12_PerimeterFace ==
    LET is_face == is_perimeter_face(mesh)
    IN /\ Len(is_face) = Len(mesh.corners_at_face)
       /\ \A f \in 1..Len(is_face) :
              is_face[f] <=> (mesh.corners_at_face[f][1] = -1
                              \/ mesh.corners_at_face[f][2] = -1)

\* After the corner drop: a face with both corners -1, a face with one and a
\* face with none, the first two marked and the third not.
C12_Witness ==
    /\ pc = "drop_links"
    /\ \E f, g, h \in 1..Len(mesh.corners_at_face) :
           /\ AllMinusOne(mesh.corners_at_face[f]) /\ is_perimeter_face(mesh)[f]
           /\ HasMinusOne(mesh.corners_at_face[g]) /\ ~AllMinusOne(mesh.corners_at_face[g])
           /\ is_perimeter_face(mesh)[g]
           /\ ~HasMinusOne(mesh.corners_at_face[h]) /\ ~is_perimeter_face(mesh)[h]

\* C13: from the return of drop_corners to the end of construction, for
\* every patch p and i in 0..2, links_at_patch[p][i] is a link id in range
\* whose row of nodes_at_link is the pair nodes_at_patch[p][i],
\* nodes_at_patch[p][(i+1) mod 3] in either orientation.
C13_LinksJoinPatchNodes ==
    AfterDropCorners =>
        \A p \in 1..Len(mesh.links_at_patch) :
            \A i \in 1..3 :
                LET l == mesh.links_at_patch[p][i]
                    a == mesh.nodes_at_patch[p][i]
                    b == mesh.nodes_at_patch[p][(i % 3) + 1]
                IN /\ 0 <= l /\ l < Len(mesh.nodes_at_link)
                   /\ SamePair(mesh.nodes_at_link[l + 1], a, b)

\* The cells that list the corner among their first n_corners_at_cell
\* entries.
CellsUsing(c) ==
    {cell \in 0..(Len(mesh.corners_at_cell) - 1) :
        \E k \in 1..mesh.n_corners_at_cell[cell + 1][1] :
            mesh.corners_at_cell[cell + 1][k] = c}

BoundedFaces ==
    {f \in 1..Len(mesh.corners_at_face) : ~HasMinusOne(mesh.corners_at_face[f])}

\* The cells of the two nodes of the face.
CellsOfFace(f) == {mesh.cell_at_node[mesh.nodes_at_face[f][k] + 1][1] : k \in 1..2}

\* The tables are those of the tessellation, before any cell is dropped.
BeforeCellDrop == pc \in {"raw", "linked", "drop_links", "drop_patches",
                          "corners_dropped", "faces_dropped"}

\* C14 as stated: each corner of a bounded face is used by the two cells of
\* the face's nodes and by no other cell.
C14_CornerOfExactlyTwoCells ==
    BeforeCellDrop =>
        \A f \in BoundedFaces :
            \A k \in 1..2 : CellsUsing(mesh.corners_at_face[f][k]) = CellsOfFace(f)

\* C14 amended: until cells are dropped, each corner of a bounded face is
\* used by both cells of the face's nodes, which are two different cells;
\* other cells may use it too.
C14_CornerOfBothCells ==
    BeforeCellDrop =>
        \A f \in BoundedFaces :
            /\ Cardinality(CellsOfFace(f)) = 2
            /\ \A k \in 1..2 :
                   CellsOfFace(f) \subseteq CellsUsing(mesh.corners_at_face[f][k])

\* A bounded face one of whose corners is used by the two cells of its nodes
\* and by a third cell.
C14_Witness ==
    /\ pc = "linked"
    /\ \E f \in BoundedFaces :
           \E k \in 1..2 :
               /\ CellsOfFace(f) \subseteq CellsUsing(mesh.corners_at_face[f][k])
               /\ Cardinality(CellsUsing(mesh.corners_at_face[f][k])) = 3

\* C15: the arrays the adjacency accessors return are snapshots: after a
\* caller has assigned into one, every table of the mesh is as it was.
C15_AccessorsAreSnapshots ==
    last.op = "write" => mesh = last.pre

\* The pairs of perimeter_links that are no row of nodes_at_link, in either
\* orientation.
UnknownPairs ==
    {i \in DOMAIN perimeter_links.pairs :
        ~\E l \in 1..Len(mesh.nodes_at_link) :
            SamePair(mesh.nodes_at_link[l], perimeter_links.pairs[i][1],
                     perimeter_links.pairs[i][2])}

\* __init__ has stored the list and unbound_corners() has consulted it; no
\* link has been dropped yet.
ListConsulted ==
    \/ pc = "drop_links"
    \/ pc = "corners_dropped" /\ last.op = "none"

\* C16: construction with a perimeter_links list holding a pair that is in
\* nodes_at_link in neither orientation fails: it does not get past the
\* classification of the links.
C16_UnknownPairRejected ==
    (perimeter_links.given /\ ListConsulted) => UnknownPairs = {}

\* The mesh is the one of the given points (construction drops no node).
MeshOf(voronoi) ==
    /\ mesh.x_of_node = Column(voronoi.points, 1)
    /\ mesh.y_of_node = Column(voronoi.points, 2)

BuiltFrom(voronoi) == pc = "built" /\ MeshOf(voronoi)

\* C17: the mesh constructed from the three points of a triangle has 3
\* nodes, 3 links, 1 patch and 0 cells.
C17_TriangleScenario ==
    BuiltFrom(Triangle) =>
        /\ number_of(mesh, "node") = 3
        /\ number_of(mesh, "link") = 3
        /\ number_of(mesh, "patch") = 1
        /\ number_of(mesh, "cell") = 0

\* The triangle's mesh is built: drop_perimeter_cells has dropped the three
\* open regions and the empty one of a raw tessellation with one corner.
C17_Witness ==
    /\ BuiltFrom(Triangle)
    /\ Returned /\ last.at = "cell"
    /\ number_of(mesh, "corner") = 1
    /\ Cardinality(DroppedSet) = 4
    /\ Cardinality({c \in DroppedSet : last.pre.n_corners_at_cell[c + 1][1] > 0}) = 3

InteriorCells == {c \in 0..(Len(mesh.corners_at_cell) - 1) : ~is_perimeter_cell(mesh)[c + 1]}

PerimeterCells == {c \in 0..(Len(mesh.corners_at_cell) - 1) : is_perimeter_cell(mesh)[c + 1]}

\* The faces, as unordered corner pairs, and the consecutive corner pairs of
\* the row of a cell.
FaceCornerPairs ==
    {{mesh.corners_at_face[f][1], mesh.corners_at_face[f][2]} :
        f \in 1..Len(mesh.corners_at_face)}

RingOfCell(c) ==
    LET row == mesh.corners_at_cell[c + 1]
    IN {{row[k], row[(k % Len(row)) + 1]} : k \in 1..Len(row)}

\* The centre of the hexagon is its last point.
HexagonCentre == Len(Hexagon.points) - 1

\* After the pipeline on the hexagon: one cell, the centre's, and six faces,
\* each between the centre and an outer node, which are the six sides of the
\* ring of the cell's six corners; no -1 in a face or in the cell.
HexagonBuilt ==
    /\ number_of(mesh, "cell") = 1
    /\ number_of(mesh, "face") = 6
    /\ mesh.node_at_cell = << <<HexagonCentre>> >>
    /\ \A f \in 1..6 :
           /\ ~HasMinusOne(mesh.corners_at_face[f])
           /\ HexagonCentre \in Range(mesh.nodes_at_face[f])
    /\ ~HasMinusOne(mesh.corners_at_cell[1])
    /\ Cardinality(Range(mesh.corners_at_cell[1])) = 6
    /\ Cardinality(FaceCornerPairs) = 6
    /\ FaceCornerPairs = RingOfCell(0)

\* C18 as stated: the raw tessellation of the hexagon classifies to one
\* interior cell, the centre's, and 6 perimeter cells; after the pipeline one
\* cell and six faces remain, a closed ring around the centre without -1.
C18_HexagonSixPerimeterCells ==
    (MeshOf(Hexagon) /\ ~perimeter_links.given) =>
        /\ pc = "raw" =>
               /\ InteriorCells = {mesh.cell_at_node[HexagonCentre + 1][1]}
               /\ Cardinality(PerimeterCells) = 6
        /\ pc = "built" => HexagonBuilt

\* C18 amended: the raw tessellation of the hexagon classifies to one
\* interior cell, the centre's, and 7 perimeter cells, the open regions of
\* the six outer points and the empty region that belongs to no point; after
\* the pipeline one cell and six faces remain, a closed ring around the
\* centre without -1.
C18_HexagonScenario ==
    (MeshOf(Hexagon) /\ ~perimeter_links.given) =>
        /\ pc = "raw" =>
               /\ InteriorCells = {mesh.cell_at_node[HexagonCentre + 1][1]}
               /\ Cardinality(PerimeterCells) = 7
               /\ Cardinality(PerimeterCells \cap
                              {mesh.cell_at_node[n][1] : n \in 1..Len(mesh.cell_at_node)}) = 6
               /\ \E c \in PerimeterCells : mesh.n_corners_at_cell[c + 1][1] = 0
        /\ pc = "built" => HexagonBuilt

\* The hexagon's mesh is built: drop_perimeter_cells has dropped seven cells
\* and left the centre's.
C18_Witness ==
    /\ BuiltFrom(Hexagon) /\ ~perimeter_links.given
    /\ Returned /\ last.at = "cell"
    /\ Cardinality(DroppedSet) = 7
    /\ number_of(mesh, "cell") = 1

\* C19: drop_element of the single corner id k of n corners leaves the
\* entries of corners_at_face and corners_at_cell below k as they were,
\* decreases those above k by 1, turns those equal to k into -1, and leaves
\* in x_of_corner and y_of_corner the other n - 1 corners in order.
C19_SingleCornerDrop ==
    (Returned /\ last.at = "corner" /\ ValidIds /\ Len(last.ids) = 1) =>
        LET k == last.ids[1]
        IN /\ \A name \in {"corners_at_face", "corners_at_cell"} :
                  /\ Len(mesh[name]) = Len(last.pre[name])
                  /\ \A c \in Cells(name) :
                         LET old == last.pre[name][c[1]][c[2]]
                             new == mesh[name][c[1]][c[2]]
                         IN /\ old < k => new = old
                            /\ old > k => new = old - 1
                            /\ old = k => new = -1
           /\ \A name \in {"x_of_corner", "y_of_corner"} :
                  /\ Len(mesh[name]) = CountBefore - 1
                  /\ \A j \in 0..(CountBefore - 2) :
                         mesh[name][j + 1] = last.pre[name][(IF j < k THEN j ELSE j + 1) + 1]

\* Corner 2 of five corners has been dropped: a face that referenced it holds
\* -1, a reference to corner 4 holds 3 and a reference to corner 1 holds 1.
C19_Witness ==
    /\ Returned /\ last.at = "corner" /\ last.ids = <<2>>
    /\ CountBefore = 5
    /\ Len(mesh.x_of_corner) = 4
    /\ \E c \in Cells("corners_at_face") :
           /\ last.pre.corners_at_face[c[1]][c[2]] = 2
           /\ mesh.corners_at_face[c[1]][c[2]] = -1
    /\ \E c \in Cells("corners_at_cell") :
           /\ last.pre.corners_at_cell[c[1]][c[2]] = 4
           /\ mesh.corners_at_cell[c[1]][c[2]] = 3
    /\ \E c \in Cells("corners_at_cell") :
           /\ last.pre.corners_at_cell[c[1]][c[2]] = 1
           /\ mesh.corners_at_cell[c[1]][c[2]] = 1

\* C20: save(path, clobber=False) never overwrites a file: it writes path,
\* with .grid appended unless path ends in .grid, and when the file it
\* would write exists it raises and changes no file.
C20_SaveNeverOverwrites ==
    (saved.op = "save" /\ ~saved.clobber) =>
        LET target == GridPath(saved.path)
        IN /\ splitext(target)[2] = <<"grid">>
           /\ \A p \in AllPaths \ {target} : files[p] = saved.pre[p]
           /\ IF saved.pre[target] # "absent"
              THEN saved.raised /\ files = saved.pre
              ELSE saved.raised \/ files[target] = "pickle"

(***************************************************************************)
(* The order of the pruning and what it leaves.                            *)
(***************************************************************************)
\* What __init__ has just done, by its position.
PruningOrder ==
    /\ pc = "drop_links" => last.at = "corner" /\ Returned
    /\ pc = "drop_patches" => last.at = "link" /\ Returned
    /\ pc = "corners_dropped" => last.op = "none" \/ (last.at = "patch" /\ Returned)
    /\ pc = "faces_dropped" => last.at = "face" /\ Returned
    /\ pc = "built" => last.at = "cell" /\ Returned

\* One step of __init__ goes to the next position and adds no element of
\* any kind.
PruningStep ==
    /\ <<pc, pc'>> \in
           { <<"raw", "linked">>, <<"linked", "drop_links">>,
             <<"linked", "corners_dropped">>, <<"drop_links", "drop_patches">>,
             <<"drop_patches", "corners_dropped">>,
             <<"corners_dropped", "faces_dropped">>, <<"faces_dropped", "built">> }
    /\ \A at \in Kinds : number_of(mesh', at) <= number_of(mesh, at)

\* C25: construction prunes corners, then the links and the patches the
\* corner drop invalidated, then perimeter faces, then perimeter cells, no
\* step adds an element, and when it is over no face holds a -1 corner and
\* every cell has at least 3 corners with no -1 among them.
C25_PruningOrder ==
    /\ [](PruningOrder)
    /\ [][pc' \notin {"dropped", "written"} => PruningStep]_vars
    /\ [](pc = "built" =>
            /\ \A f \in 1..Len(mesh.corners_at_face) :
                   ~HasMinusOne(mesh.corners_at_face[f])
            /\ \A c \in 1..Len(mesh.corners_at_cell) :
                   LET n == mesh.n_corners_at_cell[c][1]
                   IN n >= 3 /\ \A k \in 1..n : mesh.corners_at_cell[c][k] # -1)

\* Construction of the notched hexagon is over and every step has dropped
\* something: corners, links, patches, faces and cells.
C25_Witness ==
    /\ BuiltFrom(Hexagon)
    /\ perimeter_links.given
    /\ number_of(mesh, "corner") < Len(Hexagon.vertices)
    /\ number_of(mesh, "link") < Len(Hexagon.ridge_points)
    /\ number_of(mesh, "patch") < Len(Hexagon.simplices)
    /\ number_of(mesh, "face") < number_of(mesh, "link")
    /\ number_of(mesh, "face") > 0
    /\ number_of(mesh, "cell") < Len(Hexagon.regions)


(***************************************************************************)
(* Construction without an explicit perimeter.                             *)
(***************************************************************************)
\* The corner, link and patch tables are those of the raw tessellation.
SameCornersLinksPatches(voronoi) ==
    /\ number_of(mesh, "corner") = Len(voronoi.vertices)
    /\ number_of(mesh, "link") = Len(voronoi.ridge_points)
    /\ number_of(mesh, "patch") = Len(voronoi.simplices)
    /\ mesh.x_of_corner = VoronoiDelaunay(voronoi).x_of_corner
    /\ mesh.y_of_corner = VoronoiDelaunay(voronoi).y_of_corner
    /\ mesh.nodes_at_link = VoronoiDelaunay(voronoi).nodes_at_link
    /\ mesh.nodes_at_patch = VoronoiDelaunay(voronoi).nodes_at_patch

\* C26: when no perimeter_links is given, unbound_corners() is empty for
\* every input, drop_corners returns without dropping anything, and the
\* corner, link and patch tables keep their raw tessellation values to the
\* end of construction.
C26_NoListNoCornerDrop ==
    ~perimeter_links.given =>
        /\ CanClassify => unbound_corners(mesh, perimeter_links) = <<>>
        /\ pc \notin {"drop_links", "drop_patches"}
        /\ pc = "corners_dropped" => last.op = "none"
        /\ AfterDropCorners =>
               \A input \in Inputs :
                   MeshOf(input.xy) => SameCornersLinksPatches(input.xy)

\* Construction without a list is over for a tessellation that has
\* perimeter faces, and drop_corners has dropped nothing.
C26_Witness ==
    /\ pc = "built"
    /\ ~perimeter_links.given
    /\ MeshOf(Hexagon)
    /\ number_of(mesh, "face") < number_of(mesh, "link")
    /\ number_of(mesh, "corner") = Len(Hexagon.vertices)


(***************************************************************************)
(* Faces and links share an index in drop_corners.                         *)
(***************************************************************************)
\* C27: while drop_corners runs in the constructor (up to its removal of
\* bad links, which takes face indices for link indices) nodes_at_face[i]
\* equals nodes_at_link[i] for every i, and when construction is over the
\* node pair of every surviving face is still a row of nodes_at_link.
C27_FaceLinkAlignment ==
    /\ pc \in {"raw", "linked", "drop_links"} =>
           mesh.nodes_at_face = mesh.nodes_at_link
    /\ pc = "built" =>
           \A f \in 1..Len(mesh.nodes_at_face) :
               \E l \in 1..Len(mesh.nodes_at_link) :
                   mesh.nodes_at_link[l] = mesh.nodes_at_face[f]

\* Construction is over, drop_corners has removed links, and faces
\* survive.
C27_Witness ==
    /\ pc = "built"
    /\ perimeter_links.given
    /\ \E input \in Inputs :
           /\ MeshOf(input.xy)
           /\ number_of(mesh, "link") < Len(input.xy.ridge_points)
    /\ number_of(mesh, "face") > 0
    /\ number_of(mesh, "face") < number_of(mesh, "link")


(***************************************************************************)
(* n_corners_at_cell against corners_at_cell.                              *)
(***************************************************************************)
\* The positions of row c of corners_at_cell that hold a corner.
ValidPositions(c) ==
    {k \in 1..Len(mesh.corners_at_cell[c]) : mesh.corners_at_cell[c][k] # -1}

\* C28: a drop of anything but cells leaves every entry of
\* n_corners_at_cell as it was, and when construction is over, for every
\* surviving cell c, n_corners_at_cell[c] is the number of entries of
\* corners_at_cell[c] other than -1 and these are its first
\* n_corners_at_cell[c] entries.
C28_CornerCountMatchesRow ==
    /\ (Returned /\ last.at # "cell") =>
           mesh.n_corners_at_cell = last.pre.n_corners_at_cell
    /\ pc = "built" =>
           \A c \in 1..Len(mesh.corners_at_cell) :
               /\ mesh.n_corners_at_cell[c][1] = Cardinality(ValidPositions(c))
               /\ ValidPositions(c) = 1..mesh.n_corners_at_cell[c][1]

\* Construction is over, drop_corners has removed a corner and a cell
\* survives.
C28_Witness ==
    /\ BuiltFrom(TwoInnerPoints)
    /\ perimeter_links.given
    /\ number_of(mesh, "corner") < Len(TwoInnerPoints.vertices)
    /\ number_of(mesh, "cell") > 0


(***************************************************************************)
(* drop_element and the list its ids come in.                              *)
(***************************************************************************)
\* C29: drop_element depends only on the set of the ids it is given: a
\* call with ids of the kind, in any order and with repetitions, leaves the
\* tables that a call with each of its ids once, in ascending order,
\* leaves.
C29_OnlyTheSetOfIds ==
    (Returned /\ ValidIds) =>
        mesh = drop_element(last.pre, SetToSortedSeq(DroppedSet), last.at)


(***************************************************************************)
(* SpeciesEvolver of landlab/components/species_evolution.                 *)
(*                                                                         *)
(* A float is [nan, value]: np.nan is NaN, any other float f is Float(f).  *)
(* A Species object is its place in evolver.objects, None is 0; a clade    *)
(* name is the sequence of its letters.                                    *)
(***************************************************************************)
\* Most run_one_step calls, most species in all, most species handed to
\* one _introduce_species call.
MaxSteps == 3

MaxSpecies == 3

MaxIntroduced == 2

\* The timesteps handed to run_one_step.
Dts == {-1, 0, 1, 2}

NaN == [nan |-> TRUE, value |-> 0]

Float(f) == [nan |-> FALSE, value |-> f]

\* np.nanmax: the largest entry that is no nan, nan when there is none.
nanmax(a) ==
    LET values == {a[i].value : i \in {j \in 1..Len(a) : ~a[j].nan}}
    IN IF values = {} THEN NaN
       ELSE Float(CHOOSE v \in values : \A w \in values : w <= v)

ascii_uppercase ==
    << "A", "B", "C", "D", "E", "F", "G", "H", "I", "J", "K", "L", "M",
       "N", "O", "P", "Q", "R", "S", "T", "U", "V", "W", "X", "Y", "Z" >>

\* Tuple i (from 0) of itertools.product(ascii_uppercase, repeat=size).
product(size, i) ==
    [p \in 1..size |->
        ascii_uppercase[((i \div Len(ascii_uppercase) ^ (size - p))
                            % Len(ascii_uppercase)) + 1]]

\* Name n (from 0) that _get_next_clade_name yields, looked for from the
\* names of `size` letters on.
RECURSIVE NameFromSize(_, _)
NameFromSize(n, size) ==
    IF n < Len(ascii_uppercase) ^ size THEN product(size, n)
    ELSE NameFromSize(n - Len(ascii_uppercase) ^ size, size + 1)

_get_next_clade_name(n) == NameFromSize(n, 1)

\* SpeciesEvolver.__init__: the delegate's record and species tables, the
\* clade generator, no species controller.  objects are the Species the
\* callers have made, dts the timesteps of the run_one_step calls so far.
NewEvolver ==
    [pc |-> "ready",
     _record |-> [time |-> <<NaN>>],
     _species |-> <<>>,
     _clade_generator |-> 0,
     objects |-> <<>>,
     dts |-> <<>>,
     last |-> "__init__"]

SpeciesInit ==
    /\ evolver = NewEvolver
    /\ radial = NotConstructed
    /\ diffuser = NotConstructed
    /\ NoMeshNoGrid

\* The time run_one_step inserts in the record.
NewTimeFirstCallAdvanced(times, dt) ==
    IF times = <<NaN>> THEN Float(dt) ELSE Float(nanmax(times).value + dt)

NewTime(times, dt) ==
    IF times = <<NaN>> THEN Float(0) ELSE Float(nanmax(times).value + dt)

\* _insert_record_add_on for one key.
_insert_record_add_on(record, key, value) ==
    LET n_records == Len(record.time)
        column == IF key \in DOMAIN record THEN record[key]
                  ELSE [i \in 1..(n_records - 1) |-> NaN]
    IN [k \in DOMAIN record \cup {key} |->
            IF k = key THEN Append(column, value) ELSE record[k]]

\* run_one_step(dt) with the controllers __init__ leaves, none: there are
\* no survivors and _update_species_data_structure has nothing to update.
RunOneStep ==
    /\ evolver.pc = "ready"
    /\ Len(evolver.dts) < MaxSteps
    /\ \E dt \in Dts :
         LET time == NewTime(evolver._record.time, dt)
             timed == [evolver._record EXCEPT !.time = Append(@, time)]
             survivors == <<>>
         IN evolver' = [evolver EXCEPT
                          !._record = _insert_record_add_on(
                                          timed, "species_count", Float(Len(survivors))),
                          !.dts = Append(@, dt),
                          !.last = "run_one_step"]
    /\ UNCHANGED <<graph, disk, radial, diffuser>>

\* species_num = nums[np.where(clades == clade)[0]].max() + 1
NextSpeciesNumber(clades, nums, clade) ==
    LET members == {nums[i] : i \in {j \in 1..Len(clades) : clades[j] = clade}}
    IN (CHOOSE v \in members : \A w \in members : w <= v) + 1

\* The identifiers the loop of _introduce_species gives to the species of
\* the list, whose parents are `parents`.
Identifiers(parents) ==
    LET clades == [i \in 1..Len(evolver._species) |-> evolver._species[i].clade]
        nums == [i \in 1..Len(evolver._species) |-> evolver._species[i].species_number]
        yielded(j) == Cardinality({i \in 1..(j - 1) : parents[i] = 0})
    IN [j \in 1..Len(parents) |->
            IF parents[j] = 0
            THEN <<_get_next_clade_name(evolver._clade_generator + yielded(j)), 0>>
            ELSE LET clade == evolver.objects[parents[j]]._identifier[1]
                 IN <<clade, NextSpeciesNumber(clades, nums, clade)>>]

\* The orders list(set) can give n objects in.
Orders(n) == {o \in [1..n -> 1..n] : \A i, j \in 1..n : o[i] = o[j] => i = j}

\* _introduce_species(species) for new Species objects, each without a
\* parent or with a parent that has been introduced.  The rows go into
\* the species table in the order of a set of objects, which is any.
IntroduceSpecies ==
    /\ evolver.pc = "ready"
    /\ \E n \in 1..MaxIntroduced :
         /\ Len(evolver.objects) + n <= MaxSpecies
         /\ \E parents \in [1..n -> 0..Len(evolver.objects)] :
              \E order \in Orders(n) :
                LET ids == Identifiers(parents)
                    species == [j \in 1..n |->
                                   [parent_species |-> parents[j], _identifier |-> ids[j]]]
                    first == Len(evolver.objects)
                    time == nanmax(evolver._record.time)
                    s_new == [j \in 1..n |->
                                 [clade |-> ids[order[j]][1],
                                  species_number |-> ids[order[j]][2],
                                  time_appeared |-> time,
                                  latest_time |-> time,
                                  object |-> first + order[j]]]
                IN evolver' = [evolver EXCEPT
                                 !.objects = @ \o species,
                                 !._clade_generator =
                                     @ + Cardinality({j \in 1..n : parents[j] = 0}),
                                 !._species = @ \o s_new,
                                 !.last = "_introduce_species"]
    /\ UNCHANGED <<graph, disk, radial, diffuser>>

SpeciesNext ==
    \/ RunOneStep
    \/ IntroduceSpecies

SpeciesSpec == SpeciesInit /\ [][SpeciesNext]_vars

\* The parentless species made before object o, and the members of the
\* clade of o made before it.
ParentlessBefore(o) ==
    {p \in 1..(o - 1) : evolver.objects[p].parent_species = 0}

\* The clade a species belongs to by descent: its own for a species without
\* a parent, that of its parent otherwise.
RECURSIVE Founder(_)
Founder(o) ==
    IF evolver.objects[o].parent_species = 0 THEN o
    ELSE Founder(evolver.objects[o].parent_species)

CladeMembersBefore(o) == {p \in 1..(o - 1) : Founder(p) = Founder(o)}

\* C22: over any sequence of _introduce_species calls a species without a
\* parent has the next unused clade name (A..Z, then AA, AB, ...) and the
\* number 0, a species with a parent has the clade of its parent and the
\* number of its place in the clade by order of appearance, and no two
\* species have the same (clade, number).
C22_SpeciesIdentifiers ==
    evolver.pc = "ready" =>
        /\ \A o \in 1..Len(evolver.objects) :
               LET s == evolver.objects[o]
               IN IF s.parent_species = 0
                  THEN s._identifier =
                           <<_get_next_clade_name(Cardinality(ParentlessBefore(o))), 0>>
                  ELSE /\ s._identifier[1] =
                              evolver.objects[s.parent_species]._identifier[1]
                       /\ s._identifier[2] = Cardinality(CladeMembersBefore(o))
        /\ \A i, j \in 1..Len(evolver._species) :
               (/\ evolver._species[i].clade = evolver._species[j].clade
                /\ evolver._species[i].species_number =
                       evolver._species[j].species_number) => i = j


\* The times run_one_step has recorded: the record without the nan it is
\* made with.
RecordedTimes == Tail(evolver._record.time)

\* The largest of the first n recorded times.
LargestOfFirst(n) ==
    CHOOSE v \in {RecordedTimes[i].value : i \in 1..n} :
        \A i \in 1..n : RecordedTimes[i].value <= v

\* The time record after a step is the one before it with entries added at
\* its end, one if the step is a run_one_step call and none otherwise.
AppendOnly ==
    LET before == evolver._record.time
        after == evolver'._record.time
    IN /\ Len(after) = Len(before) + (IF evolver'.last = "run_one_step" THEN 1 ELSE 0)
       /\ \A i \in 1..Len(before) : after[i] = before[i]

MaxCalls == 3

\* The timesteps handed to run_one_step.
Timesteps == {1, 2, 3}

\* The erodibility coefficients a component is made with.
Erodibilities == {1, 250}

\* slope_crit, left at its default.
slope_crit == 1

\* A row of four nodes 600 apart, 0 an open boundary, 1 and 2 core nodes,
\* 3 a closed boundary, with the fields a steepest-descent flow director
\* leaves: a ramp at the critical slope.
Ramp ==
    [ dx |-> 600,
      core_nodes |-> <<1, 2>>,
      topographic__elevation      |-> <<0, 600, 1200, 1200>>,
      flow__receiver_node         |-> <<0, 0, 1, 3>>,
      topographic__steepest_slope |-> <<0, 1, 1, 0>>,
      flow__sink_flag             |-> <<1, 0, 0, 1>> ]

\* A cliff above the outlet, three times the critical slope.
Cliff ==
    [ dx |-> 600,
      core_nodes |-> <<1, 2>>,
      topographic__elevation      |-> <<0, 1800, 2400, 2400>>,
      flow__receiver_node         |-> <<0, 0, 1, 3>>,
      topographic__steepest_slope |-> <<0, 3, 1, 0>>,
      flow__sink_flag             |-> <<1, 0, 0, 1>> ]

\* A pit at node 1, which is its own receiver.
Pit ==
    [ dx |-> 600,
      core_nodes |-> <<1, 2>>,
      topographic__elevation      |-> <<600, 0, 600, 600>>,
      flow__receiver_node         |-> <<0, 1, 1, 3>>,
      topographic__steepest_slope |-> <<0, 0, 1, 0>>,
      flow__sink_flag             |-> <<1, 1, 0, 1>> ]

Grids == {Ramp, Cliff, Pit}

\* grid.add_zeros("node", name)
add_zeros(grid) == [i \in 1..Len(grid.topographic__elevation) |-> 0]

\* TransportLengthHillslopeDiffuser(grid, erodibility) on a grid that has
\* none of the sediment fields.
NewDiffuser(grid, erodibility) ==
    [pc |-> "ready",
     _grid |-> [dx |-> grid.dx, core_nodes |-> grid.core_nodes,
                flow__sink_flag |-> grid.flow__sink_flag],
     _k |-> erodibility,
     _slope_crit |-> slope_crit,
     _elev |-> grid.topographic__elevation,
     _steepest |-> grid.topographic__steepest_slope,
     _receiver |-> grid.flow__receiver_node,
     _depo |-> add_zeros(grid),
     _trans |-> add_zeros(grid),
     _d_coeff |-> add_zeros(grid),
     _flux_in |-> add_zeros(grid),
     _flux_out |-> add_zeros(grid),
     _erosion |-> add_zeros(grid),
     calls |-> 0,
     last |-> [op |-> "__init__", dt |-> 0, raised |-> FALSE]]

DiffuserInit ==
    /\ \E grid \in Grids :
         \E erodibility \in Erodibilities :
           diffuser = NewDiffuser(grid, erodibility)
    /\ radial = NotConstructed
    /\ evolver = NotConstructed
    /\ NoMeshNoGrid

\* Is node id i one of the ids?
IsCore(d, i) == \E c \in 1..Len(d._grid.core_nodes) : d._grid.core_nodes[c] = i

\* The fields of component d after tldiffusion(dt).
tldiffusion(d, dt) ==
    LET nodes == 1..Len(d._elev)
        dx == d._grid.dx
        \* flux_in[receiver[i]] += flux_out[i] for the core nodes i
        flux_in == [n \in nodes |->
                       np_sum([c \in 1..Len(d._grid.core_nodes) |->
                                  IF d._receiver[d._grid.core_nodes[c] + 1] = n - 1
                                  THEN d._flux_out[d._grid.core_nodes[c] + 1] ELSE 0])]
        d_coeff == [n \in nodes |->
                       IF ~IsCore(d, n - 1) THEN d._d_coeff[n]
                       ELSE IF d._steepest[n] >= d._slope_crit THEN 1000000000
                       ELSE (d._slope_crit * d._slope_crit)
                                \div (d._slope_crit * d._slope_crit
                                         - d._steepest[n] * d._steepest[n])]
        depo == [n \in nodes |->
                    IF IsCore(d, n - 1) THEN flux_in[n] \div d_coeff[n] ELSE 0]
        erosion == [n \in nodes |->
                       IF ~IsCore(d, n - 1) THEN 0
                       ELSE IF d._steepest[n] > d._slope_crit
                       THEN (dx * (d._steepest[n] - d._slope_crit)) \div (100 * dt)
                       ELSE d._k * d._steepest[n]]
        elev == [n \in nodes |->
                    IF IsCore(d, n - 1) THEN d._elev[n] + (-erosion[n] + depo[n]) * dt
                    ELSE d._elev[n]]
        trans == [n \in nodes |-> IF IsCore(d, n - 1) THEN flux_in[n] - depo[n] ELSE 0]
    IN [d EXCEPT !._flux_in = flux_in, !._d_coeff = d_coeff, !._depo = depo,
                 !._erosion = erosion, !._elev = elev, !._trans = trans,
                 !._flux_out = [n \in nodes |-> erosion[n] + trans[n]]]

\* s = elev_dif[np.where(flow__sink_flag == 0)], as the set of its values.
SlopeAfter(d) ==
    {d._elev[n] - d._elev[d._receiver[n] + 1] :
        n \in {m \in 1..Len(d._elev) : d._grid.flow__sink_flag[m] = 0}}

\* np.any gives a numpy.bool_, Python's True is a bool.
np_any(values) == [type |-> "numpy.bool_", value |-> values # {}]

True == [type |-> "bool", value |-> TRUE]

\* `a is b`: a and b are one object.  True is the one bool that is true,
\* and no numpy.bool_ is it.
is(a, b) == a = b

\* `np.any(s < -1) is True`
Unstable(d) == is(np_any({v \in SlopeAfter(d) : v < -1}), True)

\* run_one_step(dt): tldiffusion, then the test of the timestep.  The
\* fields keep what tldiffusion wrote when the test raises.
StepDiffuser ==
    /\ diffuser.pc = "ready"
    /\ diffuser.calls < MaxCalls
    /\ \E dt \in Timesteps :
         LET after == tldiffusion(diffuser, dt)
         IN diffuser' = [after EXCEPT
                           !.calls = @ + 1,
                           !.last = [op |-> "run_one_step", dt |-> dt,
                                     raised |-> Unstable(after)]]
    /\ UNCHANGED <<graph, disk, radial, evolver>>

DiffuserNext == StepDiffuser

DiffuserSpec == DiffuserInit /\ [][DiffuserNext]_vars

\* C24: run_one_step(dt) raises ValueError whenever, after the update,
\* some node with flow__sink_flag 0 has its elevation minus that of its
\* receiver below -1, and completes without error otherwise.
C24_UnstableStepRaises ==
    diffuser.last.op = "run_one_step" =>
        (diffuser.last.raised <=>
            \E n \in 1..Len(diffuser._elev) :
                /\ diffuser._grid.flow__sink_flag[n] = 0
                /\ diffuser._elev[n] - diffuser._elev[diffuser._receiver[n] + 1] < -1)

====
